---- MODULE Spec2Model ----
(***************************************************************************)
(* In-memory state persistence of pydantic_graph                           *)
(* (pydantic_graph/persistence/memory.py) and the run loop that drives it. *)
(*                                                                         *)
(* Python objects are modelled as heap cells, so that a snapshot holding a *)
(* reference to the live state (deep_copy off) and a snapshot holding a    *)
(* copy (deep_copy on) are different things:                               *)
(*   stateHeap  state objects (MyState), addressed by index                *)
(*   nodeHeap   node instances and End markers, addressed by index         *)
(*   snaps      NodeSnapshot / EndSnapshot objects, addressed by index     *)
(* FullStatePersistence.history is a list of snapshot addresses,           *)
(* SimpleStatePersistence.last_snapshot is one snapshot address or None.   *)
(***************************************************************************)
EXTENDS Integers, Sequences, FiniteSets, TLC

\* ---------------------------------------------------------------- bounds
MaxSnaps == 2       \* snapshot objects the direct calls create
MaxRunSnaps == 3    \* snapshot objects the runs create
MaxNow == 1         \* last instant of the logical clock
MaxX == 2           \* largest MyState.x / MyState.y a caller or node writes
MaxRegions == 1     \* recording regions open at the same time
MaxJsonSnaps == 4   \* snapshot objects in all, those load_json creates included

\* ------------------------------------------------------------- constants
None == 0                                  \* the null reference
Absent == << >>                            \* an optional field holding None
Some(v) == << v >>                         \* an optional field holding v

NodeTypes == {"Foo", "Bar", "Spam"}        \* node classes of the tests
Declared == {"Foo", "Bar"}                 \* Graph(nodes=(Foo, Bar))
NoState == [x |-> -1, y |-> -1]            \* what a snapshot of state=None shows
InitialState == [x |-> 1, y |-> 0]         \* MyState(1, ''), y by its length

VARIABLES
  stateHeap,      \* Seq of MyState values
  nodeHeap,       \* Seq of [type, data]: node instances and End markers
  snaps,          \* Seq of snapshot objects
  captured,       \* ghost: per snapshot, the values its arguments had at capture
  history,        \* FullStatePersistence.history: Seq of snapshot addresses
  last_snapshot,  \* SimpleStatePersistence.last_snapshot: address or None
  deep_copy,      \* [full, simple]: the deep_copy field of each backend
  regions,        \* the open record_run regions (suspended generators)
  snapshot_seq,   \* the snapshot id allocator's counter
  now,            \* the logical clock behind now_utc() and perf_counter()
  state,          \* the live state object of the caller / the run (address)
  cursor,         \* Graph.run: the node about to run
  step,           \* Graph.run: what the node's run produced
  snapshot_id,    \* Graph.run: cursor's snapshot id
  pc,             \* Graph.run: position in the loop
  run_result,     \* Graph.run: how the call ended
  executed,       \* ghost: the node values Graph.run executed, in order
  last_call,      \* the exception the most recent direct call raised, or "none"
  reused,         \* ghost: the full backend was used outside one first Graph.run
  graph,          \* the Graph the caller constructed, or the setup error it got
  snapshots_type_adapter,  \* [sp, sp2]: _snapshots_type_adapter is not None
  sp2_history     \* history of sp2, a second FullStatePersistence

storeVars == <<snaps, captured, history, last_snapshot, regions, snapshot_seq, now>>
runVars == <<cursor, step, snapshot_id, pc, run_result, executed>>
codecVars == <<graph, snapshots_type_adapter, sp2_history>>
vars == <<stateHeap, nodeHeap, snaps, captured, history, last_snapshot, deep_copy,
          regions, snapshot_seq, now, state, cursor, step, snapshot_id, pc,
          run_result, executed, last_call, reused, graph, snapshots_type_adapter,
          sp2_history>>

\* ---------------------------------------------------------------- helpers
Min(S) == CHOOSE m \in S : \A n \in S : m <= n

StateVal(a) == IF a = None THEN NoState ELSE stateHeap[a]

\* now_utc() / perf_counter(): every reading is later than the one before, up to
\* the last instant of the model, where the clock stays
ReadClock == {IF now < MaxNow THEN now + 1 ELSE now}

\* --------------------------------------------- graph definition, validator
\* The return annotation of each node class's run: Foo -> Bar, Bar -> End,
\* Spam -> End.
DeclaredReturn(type) == IF type = "Foo" THEN {"Bar"} ELSE {"End"}

\* Closure: the node types some declared node's return refers to that are
\* neither in the declared set nor End.
MissingRefs(nodes) ==
  {t \in NodeTypes : t \notin nodes /\ \E n \in nodes : t \in DeclaredReturn(n)}

\* Mutant of Graph: the constructor does not check the closure.
Graph_NoClosureCheck(nodes) == [requested |-> nodes, nodes |-> nodes, error |-> "none"]

\* Graph(nodes=...): validation runs once, on construction; a missing reference
\* raises the setup error and there is no graph object.
Graph(nodes) ==
  IF MissingRefs(nodes) = {}
  THEN [requested |-> nodes, nodes |-> nodes, error |-> "none"]
  ELSE [requested |-> nodes, nodes |-> {}, error |-> "GraphSetupError"]

\* The node sets the callers construct graphs from.
GraphArgs == {Declared, {"Foo"}, NodeTypes}

\* ------------------------------------------------------- snapshot objects
MkId(nid, n) == [node_id |-> nid, seq |-> n]

\* Mutant of next_snapshot_id: the allocator hands out the last id again.
next_snapshot_id_Reuse(nid, seq) == MkId(nid, seq)

\* The id the allocator gives after seq ids were given: '{node_id}:{seq + 1}'
next_snapshot_id(nid, seq) == MkId(nid, seq + 1)

generate_snapshot_id(nid) == next_snapshot_id(nid, snapshot_seq)

NodeSnapshot(sid, st, nd) ==
  [kind |-> "node", id |-> sid, state |-> st, node |-> nd,
   start_ts |-> Absent, duration |-> Absent, status |-> "created", ts |-> Absent]

EndSnapshot(sid, st, res, t) ==
  [kind |-> "end", id |-> sid, state |-> st, node |-> res,
   start_ts |-> Absent, duration |-> Absent, status |-> "none", ts |-> Some(t)]

\* ------------------------------------------------------------ deep copies
\* Each returns the reference the snapshot stores and the heap afterwards.

\* Mutant of prep_state: the state is stored as it is, never copied.
prep_state_Alias(dc, st) == [ref |-> st, heap |-> stateHeap]

\* prep_state: the state itself when deep_copy is off or the state is None,
\* else copy.deepcopy(state)
prep_state(dc, st) ==
  IF ~dc \/ st = None
  THEN [ref |-> st, heap |-> stateHeap]
  ELSE [ref |-> Len(stateHeap) + 1, heap |-> Append(stateHeap, stateHeap[st])]

node_deep_copy(nd) ==
  [ref |-> Len(nodeHeap) + 1, heap |-> Append(nodeHeap, nodeHeap[nd])]

\* Mutant of prep_node: the node or End is stored as it is, never copied.
prep_node_Alias(dc, nd) == [ref |-> nd, heap |-> nodeHeap]

\* next_node.deep_copy() if self.deep_copy else next_node (and the same for End)
prep_node(dc, nd) ==
  IF dc THEN node_deep_copy(nd) ELSE [ref |-> nd, heap |-> nodeHeap]

\* ------------------------------------------- FullStatePersistence (memory.py)
\* Mutant of FullSnapshotNode: the new snapshot replaces the history instead of
\* being appended to it.
FullSnapshotNode_Overwrite(st, nd) ==
  LET ps == prep_state(deep_copy.full, st)
      pn == prep_node(deep_copy.full, nd)
      snapshot == NodeSnapshot(generate_snapshot_id(nodeHeap[nd].type), ps.ref, pn.ref)
  IN /\ stateHeap' = ps.heap
     /\ nodeHeap' = pn.heap
     /\ snaps' = Append(snaps, snapshot)
     /\ captured' = Append(captured, [state |-> StateVal(st), node |-> nodeHeap[nd], by |-> "full"])
     /\ history' = <<Len(snaps) + 1>>
     /\ snapshot_seq' = snapshot_seq + 1
     /\ UNCHANGED <<last_snapshot, regions, now>>

\* Mutant of FullSnapshotNode: the new snapshot is inserted at the head of the
\* history.
FullSnapshotNode_Prepend(st, nd) ==
  LET ps == prep_state(deep_copy.full, st)
      pn == prep_node(deep_copy.full, nd)
      snapshot == NodeSnapshot(generate_snapshot_id(nodeHeap[nd].type), ps.ref, pn.ref)
  IN /\ stateHeap' = ps.heap
     /\ nodeHeap' = pn.heap
     /\ snaps' = Append(snaps, snapshot)
     /\ captured' = Append(captured, [state |-> StateVal(st), node |-> nodeHeap[nd], by |-> "full"])
     /\ history' = <<Len(snaps) + 1>> \o history
     /\ snapshot_seq' = snapshot_seq + 1
     /\ UNCHANGED <<last_snapshot, regions, now>>

\* snapshot_node: NodeSnapshot(state=prep_state(state), node=copy or node),
\* appended to history.
FullSnapshotNode(st, nd) ==
  LET ps == prep_state(deep_copy.full, st)
      pn == prep_node(deep_copy.full, nd)
      snapshot == NodeSnapshot(generate_snapshot_id(nodeHeap[nd].type), ps.ref, pn.ref)
  IN /\ stateHeap' = ps.heap
     /\ nodeHeap' = pn.heap
     /\ snaps' = Append(snaps, snapshot)
     /\ captured' = Append(captured, [state |-> StateVal(st), node |-> nodeHeap[nd], by |-> "full"])
     /\ history' = Append(history, Len(snaps) + 1)
     /\ snapshot_seq' = snapshot_seq + 1
     /\ UNCHANGED <<last_snapshot, regions, now>>

\* Mutant of FullSnapshotEnd: the end snapshot is inserted at the head of the
\* history.
FullSnapshotEnd_Prepend(st, end) ==
  LET ps == prep_state(deep_copy.full, st)
      pe == prep_node(deep_copy.full, end)
  IN /\ \E t \in ReadClock :
          /\ snaps' = Append(snaps, EndSnapshot(generate_snapshot_id("end"), ps.ref, pe.ref, t))
          /\ now' = t
     /\ stateHeap' = ps.heap
     /\ nodeHeap' = pe.heap
     /\ captured' = Append(captured, [state |-> StateVal(st), node |-> nodeHeap[end], by |-> "full"])
     /\ history' = <<Len(snaps) + 1>> \o history
     /\ snapshot_seq' = snapshot_seq + 1
     /\ UNCHANGED <<last_snapshot, regions>>

\* snapshot_end: EndSnapshot(state=prep_state(state), result=copy or end),
\* appended to history; its ts is read from the clock at creation.
FullSnapshotEnd(st, end) ==
  LET ps == prep_state(deep_copy.full, st)
      pe == prep_node(deep_copy.full, end)
  IN /\ \E t \in ReadClock :
          /\ snaps' = Append(snaps, EndSnapshot(generate_snapshot_id("end"), ps.ref, pe.ref, t))
          /\ now' = t
     /\ stateHeap' = ps.heap
     /\ nodeHeap' = pe.heap
     /\ captured' = Append(captured, [state |-> StateVal(st), node |-> nodeHeap[end], by |-> "full"])
     /\ history' = Append(history, Len(snaps) + 1)
     /\ snapshot_seq' = snapshot_seq + 1
     /\ UNCHANGED <<last_snapshot, regions>>

\* next(s for s in self.history if s.id == snapshot_id): the first match, or None
FullLookup(sid) ==
  LET hits == {i \in 1..Len(history) : snaps[history[i]].id = sid}
  IN IF hits = {} THEN None ELSE history[Min(hits)]

\* record_run up to its yield: locate, assert NodeSnapshot, status and start_ts,
\* start = perf_counter().  The region keeps the located snapshot object.
FullRecordRunEnter(sid, owner) ==
  LET snapshot == FullLookup(sid)
  IN /\ snapshot # None
     /\ snaps[snapshot].kind = "node"
     /\ Cardinality(regions) < MaxRegions
     /\ \E t \in ReadClock :
          LET r == [backend |-> "full", snap |-> snapshot, sid |-> sid,
                    start |-> t, owner |-> owner]
          IN /\ r \notin regions
             /\ snaps' = [snaps EXCEPT ![snapshot].status = "running",
                                       ![snapshot].start_ts = Some(t)]
             /\ regions' = regions \cup {r}
             /\ now' = t
     /\ UNCHANGED <<stateHeap, nodeHeap, captured, history, last_snapshot, snapshot_seq>>

\* Mutant of FullRecordRunExit: the except branch writes 'success' too.
FullRecordRunExit_AlwaysSuccess(r, how) ==
  /\ r \in regions
  /\ r.backend = "full"
  /\ regions' = regions \ {r}
  /\ IF how = "BaseException"
     THEN UNCHANGED <<snaps, now>>
     ELSE \E t \in ReadClock :
            /\ now' = t
            /\ snaps' = [snaps EXCEPT ![r.snap].duration = Some(t - r.start),
                                      ![r.snap].status = "success"]
  /\ UNCHANGED <<stateHeap, nodeHeap, captured, history, last_snapshot, snapshot_seq>>

\* Mutant of FullRecordRunExit: the else branch is missing, a normal exit
\* writes nothing.
FullRecordRunExit_NoElse(r, how) ==
  /\ r \in regions
  /\ r.backend = "full"
  /\ regions' = regions \ {r}
  /\ IF how # "Exception"
     THEN UNCHANGED <<snaps, now>>
     ELSE \E t \in ReadClock :
            /\ now' = t
            /\ snaps' = [snaps EXCEPT ![r.snap].duration = Some(t - r.start),
                                      ![r.snap].status = "error"]
  /\ UNCHANGED <<stateHeap, nodeHeap, captured, history, last_snapshot, snapshot_seq>>

\* Mutant of FullRecordRunExit: duration and status are written to the last
\* snapshot of the history, not to the one located at entry.
FullRecordRunExit_Latest(r, how) ==
  /\ r \in regions
  /\ r.backend = "full"
  /\ regions' = regions \ {r}
  /\ IF how = "BaseException"
     THEN UNCHANGED <<snaps, now>>
     ELSE \E t \in ReadClock :
            /\ now' = t
            /\ snaps' = [snaps EXCEPT
                 ![history[Len(history)]].duration = Some(t - r.start),
                 ![history[Len(history)]].status =
                     IF how = "Exception" THEN "error" ELSE "success"]
  /\ UNCHANGED <<stateHeap, nodeHeap, captured, history, last_snapshot, snapshot_seq>>

\* record_run from its yield on.  how = "return": the body ended normally (else:);
\* "Exception": an Exception was thrown in (except Exception:, re-raised);
\* "BaseException": something that is no Exception was thrown in, such as
\* asyncio.CancelledError: no handler matches, the generator just unwinds.
FullRecordRunExit(r, how) ==
  /\ r \in regions
  /\ r.backend = "full"
  /\ regions' = regions \ {r}
  /\ IF how = "BaseException"
     THEN UNCHANGED <<snaps, now>>
     ELSE \E t \in ReadClock :
            /\ now' = t
            /\ snaps' = [snaps EXCEPT
                 ![r.snap].duration = Some(t - r.start),
                 ![r.snap].status = IF how = "Exception" THEN "error" ELSE "success"]
  /\ UNCHANGED <<stateHeap, nodeHeap, captured, history, last_snapshot, snapshot_seq>>

\* Mutant of FullRestore: the first snapshot of the history is returned.
FullRestore_First == IF Len(history) > 0 THEN history[1] ELSE None

\* restore: history[-1] if history else None
FullRestore == IF Len(history) > 0 THEN history[Len(history)] ELSE None

\* ----------------------------------------- SimpleStatePersistence (memory.py)
SimpleSnapshotNode(st, nd) ==
  LET ps == prep_state(deep_copy.simple, st)
      pn == prep_node(deep_copy.simple, nd)
      snapshot == NodeSnapshot(generate_snapshot_id(nodeHeap[nd].type), ps.ref, pn.ref)
  IN /\ stateHeap' = ps.heap
     /\ nodeHeap' = pn.heap
     /\ snaps' = Append(snaps, snapshot)
     /\ captured' = Append(captured, [state |-> StateVal(st), node |-> nodeHeap[nd], by |-> "simple"])
     /\ last_snapshot' = Len(snaps) + 1
     /\ snapshot_seq' = snapshot_seq + 1
     /\ UNCHANGED <<history, regions, now>>

SimpleSnapshotEnd(st, end) ==
  LET ps == prep_state(deep_copy.simple, st)
      pe == prep_node(deep_copy.simple, end)
  IN /\ \E t \in ReadClock :
          /\ snaps' = Append(snaps, EndSnapshot(generate_snapshot_id("end"), ps.ref, pe.ref, t))
          /\ now' = t
     /\ stateHeap' = ps.heap
     /\ nodeHeap' = pe.heap
     /\ captured' = Append(captured, [state |-> StateVal(st), node |-> nodeHeap[end], by |-> "simple"])
     /\ last_snapshot' = Len(snaps) + 1
     /\ snapshot_seq' = snapshot_seq + 1
     /\ UNCHANGED <<history, regions>>

\* record_run up to its yield: the three asserts, then status and start_ts of
\* self.last_snapshot.  The region keeps self and start, not the snapshot.
SimpleRecordRunEnter(sid, owner) ==
  /\ last_snapshot # None
  /\ snaps[last_snapshot].kind = "node"
  /\ sid = snaps[last_snapshot].id
  /\ Cardinality(regions) < MaxRegions
  /\ \E t \in ReadClock :
       LET r == [backend |-> "simple", snap |-> last_snapshot, sid |-> sid,
                 start |-> t, owner |-> owner]
       IN /\ r \notin regions
          /\ snaps' = [snaps EXCEPT ![last_snapshot].status = "running",
                                    ![last_snapshot].start_ts = Some(t)]
          /\ regions' = regions \cup {r}
          /\ now' = t
  /\ UNCHANGED <<stateHeap, nodeHeap, captured, history, last_snapshot, snapshot_seq>>

\* Mutant of SimpleRecordRunExit: duration and status are written to the
\* snapshot that was current when the region was entered.
SimpleRecordRunExit_Located(r, how) ==
  /\ r \in regions
  /\ r.backend = "simple"
  /\ regions' = regions \ {r}
  /\ IF how = "BaseException"
     THEN UNCHANGED <<snaps, now>>
     ELSE \E t \in ReadClock :
            /\ now' = t
            /\ snaps' = [snaps EXCEPT
                 ![r.snap].duration = Some(t - r.start),
                 ![r.snap].status = IF how = "Exception" THEN "error" ELSE "success"]
  /\ UNCHANGED <<stateHeap, nodeHeap, captured, history, last_snapshot, snapshot_seq>>

\* record_run from its yield on: duration and status are written to whatever
\* self.last_snapshot is at that moment.
SimpleRecordRunExit(r, how) ==
  /\ r \in regions
  /\ r.backend = "simple"
  /\ regions' = regions \ {r}
  /\ IF how = "BaseException"
     THEN UNCHANGED <<snaps, now>>
     ELSE \E t \in ReadClock :
            /\ now' = t
            /\ snaps' = [snaps EXCEPT
                 ![last_snapshot].duration = Some(t - r.start),
                 ![last_snapshot].status = IF how = "Exception" THEN "error" ELSE "success"]
  /\ UNCHANGED <<stateHeap, nodeHeap, captured, history, last_snapshot, snapshot_seq>>

SimpleRestore == last_snapshot

\* ------------------------------------------- the JSON codec of the snapshots
\* A history document is a sequence of JSON objects.  An object is a record of
\* its keys, a key that is left out or null being Absent; the state and the
\* node are written by value, ids as 'node_id:seq' strings, instants as ISO
\* strings.
id_to_str(id) == <<id.node_id, id.seq>>
str_to_id(str) == MkId(str[1], str[2])
isoformat(t) == [iso |-> t]
fromisoformat(str) == str.iso
\* The same on an optional value.
OptIsoformat(opt) == IF opt = Absent THEN Absent ELSE Some(isoformat(opt[1]))
OptFromisoformat(opt) == IF opt = Absent THEN Absent ELSE Some(fromisoformat(opt[1]))

JsonObject(kind, st, nd, res, start_ts, duration, status, ts, id) ==
  [kind |-> kind, state |-> st, node |-> nd, result |-> res, start_ts |-> start_ts,
   duration |-> duration, status |-> status, ts |-> ts, id |-> id]

\* Serialization of one snapshot.
snapshot_to_json(a) ==
  LET s == snaps[a]
      st == IF s.state = None THEN Absent ELSE Some(stateHeap[s.state])
  IN IF s.kind = "node"
     THEN JsonObject("node", st,
                     Some([node_id |-> nodeHeap[s.node].type, data |-> nodeHeap[s.node].data]),
                     Absent, OptIsoformat(s.start_ts), s.duration, Some(s.status),
                     Absent, Some(id_to_str(s.id)))
     ELSE JsonObject("end", st, Absent, Some([data |-> nodeHeap[s.node].data]),
                     Absent, Absent, Absent, OptIsoformat(s.ts), Some(id_to_str(s.id)))

\* Mutant of dump_json: the last snapshot of the history is not written.
dump_json_DropLast ==
  [i \in 1..(IF Len(history) > 0 THEN Len(history) - 1 ELSE 0) |-> snapshot_to_json(history[i])]

\* dump_json: self._snapshots_type_adapter.dump_json(self.history)
dump_json == [i \in 1..Len(history) |-> snapshot_to_json(history[i])]

\* The node id a JSON object's snapshot id is built from.
JsonNodeId(obj) == IF obj.kind = "node" THEN obj.node[1].node_id ELSE "end"

\* Deserialization, object by object: the node type is selected by node_id among
\* the graph's node types (an unknown one is a decode error); the objects are
\* built anew; a snapshot whose object has no id gets the allocator's next one.
\* acc carries the heaps, the allocator's counter and the list built so far.
RECURSIVE validate_from(_, _)
validate_from(doc, acc) ==
  IF doc = << >> \/ ~acc.ok THEN acc
  ELSE LET obj == Head(doc)
           known == obj.kind = "end" \/ obj.node[1].node_id \in graph.nodes
           st == IF obj.state = Absent THEN None ELSE Len(acc.stateHeap) + 1
           nd == Len(acc.nodeHeap) + 1
           ndval == IF obj.kind = "node"
                    THEN [type |-> obj.node[1].node_id, data |-> obj.node[1].data]
                    ELSE [type |-> "End", data |-> obj.result[1].data]
           sid == IF obj.id = Absent THEN next_snapshot_id(JsonNodeId(obj), acc.seq)
                  ELSE str_to_id(obj.id[1])
           snapshot ==
             IF obj.kind = "node"
             THEN [NodeSnapshot(sid, st, nd) EXCEPT
                     !.start_ts = OptFromisoformat(obj.start_ts),
                     !.duration = obj.duration,
                     !.status = IF obj.status = Absent THEN "created" ELSE obj.status[1]]
             ELSE EndSnapshot(sid, st, nd, fromisoformat(obj.ts[1]))
       IN IF ~known THEN [acc EXCEPT !.ok = FALSE]
          ELSE validate_from(Tail(doc),
                 [ok |-> TRUE,
                  stateHeap |-> IF st = None THEN acc.stateHeap
                                ELSE Append(acc.stateHeap, obj.state[1]),
                  nodeHeap |-> Append(acc.nodeHeap, ndval),
                  snaps |-> Append(acc.snaps, snapshot),
                  captured |-> Append(acc.captured,
                     [state |-> IF st = None THEN NoState ELSE obj.state[1], node |-> ndval,
                      by |-> IF obj.id = Absent THEN "load, id assigned" ELSE "load, id kept"]),
                  seq |-> IF obj.id = Absent THEN acc.seq + 1 ELSE acc.seq,
                  list |-> Append(acc.list, Len(acc.snaps) + 1)])

validate_json(json_data) ==
  validate_from(json_data, [ok |-> TRUE, stateHeap |-> stateHeap, nodeHeap |-> nodeHeap,
                            snaps |-> snaps, captured |-> captured, seq |-> snapshot_seq,
                            list |-> << >>])

NoAdapter == "AssertionError: type adapter must be set"

\* Mutant of load_json: the type adapter is not checked.
load_json_NoAssert(json_data) ==
  LET r == validate_json(json_data)
  IN IF ~r.ok
     THEN /\ last_call' = "ValidationError"
          /\ snapshot_seq' = r.seq
          /\ UNCHANGED <<stateHeap, nodeHeap, snaps, captured, sp2_history>>
     ELSE /\ last_call' = "none"
          /\ sp2_history' = r.list
          /\ stateHeap' = r.stateHeap
          /\ nodeHeap' = r.nodeHeap
          /\ snaps' = r.snaps
          /\ captured' = r.captured
          /\ snapshot_seq' = r.seq

\* Mutant of load_json: the decoded snapshots are added to the history.
load_json_Extend(json_data) ==
  IF ~snapshots_type_adapter.sp2
  THEN /\ last_call' = NoAdapter
       /\ UNCHANGED <<stateHeap, nodeHeap, snaps, captured, sp2_history, snapshot_seq>>
  ELSE LET r == validate_json(json_data)
       IN IF ~r.ok
          THEN /\ last_call' = "ValidationError"
               /\ snapshot_seq' = r.seq
               /\ UNCHANGED <<stateHeap, nodeHeap, snaps, captured, sp2_history>>
          ELSE /\ last_call' = "none"
               /\ sp2_history' = sp2_history \o r.list
               /\ stateHeap' = r.stateHeap
               /\ nodeHeap' = r.nodeHeap
               /\ snaps' = r.snaps
               /\ captured' = r.captured
               /\ snapshot_seq' = r.seq

\* sp2.load_json(json_data): assert the type adapter is set, then
\* self.history = self._snapshots_type_adapter.validate_json(json_data)
load_json(json_data) ==
  IF ~snapshots_type_adapter.sp2
  THEN /\ last_call' = NoAdapter
       /\ UNCHANGED <<stateHeap, nodeHeap, snaps, captured, sp2_history, snapshot_seq>>
  ELSE LET r == validate_json(json_data)
       IN IF ~r.ok
          THEN /\ last_call' = "ValidationError"
               /\ snapshot_seq' = r.seq
               /\ UNCHANGED <<stateHeap, nodeHeap, snaps, captured, sp2_history>>
          ELSE /\ last_call' = "none"
               /\ sp2_history' = r.list
               /\ stateHeap' = r.stateHeap
               /\ nodeHeap' = r.nodeHeap
               /\ snaps' = r.snaps
               /\ captured' = r.captured
               /\ snapshot_seq' = r.seq

\* ------------------------------------------------------------- the caller
\* What a direct call left behind: the exception it raised, "none" when it returned.
Outcome(op, exc, ret) == exc

\* The ids a caller can pass to record_run: any id it has seen, or one never issued.
UnknownId == MkId("Foo", 0)
PassableIds == {snaps[i].id : i \in 1..Len(snaps)} \cup {UnknownId}

\* The objects the caller holds from the start: Foo(), Bar() and an End marker.
CallerObjects == <<[type |-> "Foo", data |-> 0], [type |-> "Bar", data |-> 0],
                   [type |-> "End", data |-> 0]>>
CallerNodes == {i \in 1..Len(CallerObjects) : CallerObjects[i].type # "End"}
CallerEnds == {i \in 1..Len(CallerObjects) : CallerObjects[i].type = "End"}

\* The caller writes a payload field of a node or End it holds.
MutateHeld(obj) ==
  /\ nodeHeap[obj].data = 0
  /\ nodeHeap' = [nodeHeap EXCEPT ![obj].data = 1]
  /\ UNCHANGED <<stateHeap, storeVars, deep_copy, codecVars, state, runVars, last_call, reused>>

\* The caller writes a field of the live state.
MutateState ==
  /\ state # None
  /\ stateHeap[state].x < MaxX
  /\ stateHeap' = [stateHeap EXCEPT ![state].x = @ + 1]
  /\ UNCHANGED <<nodeHeap, storeVars, deep_copy, codecVars, state, runVars, last_call, reused>>

CallFullSnapshotNode(obj) ==
  /\ Len(snaps) < MaxSnaps
  /\ FullSnapshotNode(state, obj)
  /\ last_call' = Outcome("snapshot_node", "none", None)
  /\ reused' = TRUE
  /\ UNCHANGED <<deep_copy, codecVars, state, runVars>>

CallFullSnapshotEnd(obj) ==
  /\ Len(snaps) < MaxSnaps
  /\ FullSnapshotEnd(state, obj)
  /\ last_call' = Outcome("snapshot_end", "none", None)
  /\ reused' = TRUE
  /\ UNCHANGED <<deep_copy, codecVars, state, runVars>>

CallSimpleSnapshotNode(obj) ==
  /\ Len(snaps) < MaxSnaps
  /\ SimpleSnapshotNode(state, obj)
  /\ last_call' = Outcome("snapshot_node", "none", None)
  /\ UNCHANGED <<deep_copy, codecVars, state, runVars, reused>>

CallSimpleSnapshotEnd(obj) ==
  /\ Len(snaps) < MaxSnaps
  /\ SimpleSnapshotEnd(state, obj)
  /\ last_call' = Outcome("snapshot_end", "none", None)
  /\ UNCHANGED <<deep_copy, codecVars, state, runVars, reused>>

\* async with full.record_run(sid): entered
CallFullRecordRun(sid) ==
  /\ FullRecordRunEnter(sid, "caller")
  /\ last_call' = Outcome("record_run", "none", None)
  /\ reused' = TRUE
  /\ UNCHANGED <<deep_copy, codecVars, state, runVars>>

\* async with full.record_run(sid): raised before the body
CallFullRecordRunFails(sid) ==
  /\ \/ /\ FullLookup(sid) = None
        /\ last_call' = Outcome("record_run", "LookupError", None)
     \/ /\ FullLookup(sid) # None
        /\ snaps[FullLookup(sid)].kind # "node"
        /\ last_call' = Outcome("record_run", "AssertionError", None)
  /\ UNCHANGED <<stateHeap, nodeHeap, storeVars, deep_copy, codecVars, state, runVars, reused>>

\* the body of a caller's async with full.record_run(...) ends
CallFullRecordRunExit(r, how) ==
  /\ r.owner = "caller"
  /\ FullRecordRunExit(r, how)
  /\ last_call' = Outcome("record_run", IF how = "return" THEN "none" ELSE how, None)
  /\ UNCHANGED <<deep_copy, codecVars, state, runVars, reused>>

CallSimpleRecordRun(sid) ==
  /\ SimpleRecordRunEnter(sid, "caller")
  /\ last_call' = Outcome("record_run", "none", None)
  /\ UNCHANGED <<deep_copy, codecVars, state, runVars, reused>>

CallSimpleRecordRunFails(sid) ==
  /\ \/ last_snapshot = None
     \/ /\ last_snapshot # None
        /\ snaps[last_snapshot].kind # "node"
     \/ /\ last_snapshot # None
        /\ snaps[last_snapshot].kind = "node"
        /\ sid # snaps[last_snapshot].id
  /\ last_call' = Outcome("record_run", "AssertionError", None)
  /\ UNCHANGED <<stateHeap, nodeHeap, storeVars, deep_copy, codecVars, state, runVars, reused>>

CallSimpleRecordRunExit(r, how) ==
  /\ r.owner = "caller"
  /\ SimpleRecordRunExit(r, how)
  /\ last_call' = Outcome("record_run", IF how = "return" THEN "none" ELSE how, None)
  /\ UNCHANGED <<deep_copy, codecVars, state, runVars, reused>>

CallFullRestore ==
  /\ last_call' = Outcome("restore", "none", FullRestore)
  /\ UNCHANGED <<stateHeap, nodeHeap, storeVars, deep_copy, codecVars, state, runVars, reused>>

CallSimpleRestore ==
  /\ last_call' = Outcome("restore", "none", SimpleRestore)
  /\ UNCHANGED <<stateHeap, nodeHeap, storeVars, deep_copy, codecVars, state, runVars, reused>>

\* graph.set_persistence_types(p) -> p.set_types(...): builds the type adapter
\* if there is none yet
CallSetTypes(p) ==
  /\ graph.error = "none"
  /\ snapshots_type_adapter' = [snapshots_type_adapter EXCEPT ![p] = TRUE]
  /\ last_call' = Outcome("set_types", "none", None)
  /\ UNCHANGED <<stateHeap, nodeHeap, storeVars, deep_copy, graph, sp2_history,
                 state, runVars, reused>>

\* sp.dump_json(): assert the type adapter is set, then return the document
CallDumpJson ==
  /\ last_call' = Outcome("dump_json",
                          IF snapshots_type_adapter.sp THEN "none" ELSE NoAdapter, dump_json)
  /\ UNCHANGED <<stateHeap, nodeHeap, storeVars, deep_copy, codecVars, state,
                 runVars, reused>>

\* Hand-written documents: a node and an end snapshot without ids, one node
\* snapshot without state and id, and a node snapshot of a node_id that is not
\* a node of the graph.
CustomHistory ==
  <<JsonObject("node", Some([x |-> 2, y |-> 0]), Some([node_id |-> "Foo", data |-> 0]),
               Absent, Some(isoformat(0)), Some(1), Absent, Absent, Absent),
    JsonObject("end", Some([x |-> 2, y |-> 1]), Absent, Some([data |-> 1]),
               Absent, Absent, Absent, Some(isoformat(0)), Absent)>>
OneNodeHistory ==
  <<JsonObject("node", Absent, Some([node_id |-> "Bar", data |-> 1]),
               Absent, Some(isoformat(0)), Some(1), Absent, Absent, Absent)>>
UnknownNodeHistory ==
  <<JsonObject("node", Absent, Some([node_id |-> "Spam", data |-> 0]),
               Absent, Absent, Absent, Absent, Absent, Absent)>>

\* A document with the id of its last object taken out.
WithoutLastId(doc) ==
  [i \in 1..Len(doc) |-> IF i = Len(doc) THEN [doc[i] EXCEPT !.id = Absent] ELSE doc[i]]

\* The documents a caller passes to load_json: what sp.dump_json() returns, as
\* it is or edited, and the hand-written ones.
Documents ==
  {CustomHistory, OneNodeHistory, UnknownNodeHistory}
    \cup (IF snapshots_type_adapter.sp THEN {dump_json, WithoutLastId(dump_json)} ELSE {})

\* sp2.load_json(json_data)
CallLoadJson(json_data) ==
  /\ Len(snaps) + Len(json_data) <= MaxJsonSnaps
  /\ load_json(json_data)
  /\ UNCHANGED <<history, last_snapshot, regions, now, deep_copy, graph,
                 snapshots_type_adapter, state, runVars, reused>>

\* ------------------------------------------------------------- Graph.run
\* The loop of spec section 4.E on the full-history backend:
\*   snapshot_node(state, cursor); within record_run(cursor.snapshot_id):
\*   step <- cursor.run(ctx); then End / node in the graph / anything else.
Step(kind, ref) == [kind |-> kind, ref |-> ref]
NoStep == Step("none", None)
NoResult == [kind |-> "none", exc |-> "none", output |-> 0]
Returned(v) == [kind |-> "returned", exc |-> "none", output |-> v]
Raised(e) == [kind |-> "raised", exc |-> e, output |-> 0]

\* What a node's run does to ctx.state: Foo increments x, Bar appends to y.
NodeEffect(type, v) ==
  IF type = "Foo" THEN [v EXCEPT !.x = @ + 1]
  ELSE IF type = "Bar" THEN [v EXCEPT !.y = @ + 1]
  ELSE v

Begin(start_node) ==
  /\ cursor' = start_node
  /\ step' = NoStep
  /\ snapshot_id' = UnknownId
  /\ pc' = "snapshot"
  /\ run_result' = NoResult
  /\ executed' = << >>
  /\ snapshots_type_adapter' = [snapshots_type_adapter EXCEPT !.sp = TRUE]
  /\ UNCHANGED <<stateHeap, nodeHeap, storeVars, deep_copy, graph, sp2_history,
                 state, last_call>>

\* graph.run(start_node, state=state, persistence=full) is called
RunStart(start_node) ==
  /\ pc = "idle"
  /\ graph.error = "none"
  /\ Begin(start_node)
  /\ reused' = (reused \/ Len(history) > 0)

\* graph.run is called again with the same persistence
RunAgain(start_node) ==
  /\ pc \in {"done", "failed"}
  /\ Begin(start_node)
  /\ reused' = TRUE

\* persistence.snapshot_node(state, cursor)
RunSnapshotNode ==
  /\ pc = "snapshot"
  /\ Len(snaps) < MaxRunSnaps
  /\ FullSnapshotNode(state, cursor)
  /\ snapshot_id' = generate_snapshot_id(nodeHeap[cursor].type)
  /\ pc' = "enter"
  /\ UNCHANGED <<deep_copy, codecVars, state, cursor, step, run_result, executed,
                 last_call, reused>>

\* entering persistence.record_run(cursor.snapshot_id)
RunEnter ==
  /\ pc = "enter"
  /\ FullRecordRunEnter(snapshot_id, "run")
  /\ pc' = "body"
  /\ UNCHANGED <<deep_copy, codecVars, state, cursor, step, snapshot_id, run_result,
                 executed, last_call, reused>>

\* cursor.run(ctx): user code.  It writes ctx.state and then returns a node, an
\* End, something else, raises an Exception, or the awaiting task is cancelled.
RunNode(kind, type) ==
  /\ pc = "body"
  /\ stateHeap' = IF state = None THEN stateHeap
                  ELSE [stateHeap EXCEPT ![state] = NodeEffect(nodeHeap[cursor].type, @)]
  /\ executed' = Append(executed, nodeHeap[cursor])
  /\ IF kind \in {"node", "end"}
     THEN /\ nodeHeap' = Append(nodeHeap, [type |-> type, data |-> 0])
          /\ step' = Step(kind, Len(nodeHeap) + 1)
     ELSE /\ nodeHeap' = nodeHeap
          /\ step' = Step(kind, None)
  /\ pc' = "exit"
  /\ UNCHANGED <<storeVars, deep_copy, codecVars, state, cursor, snapshot_id, run_result,
                 last_call, reused>>

RunRegion == CHOOSE r \in regions : r.owner = "run"

ExitKind(kind) ==
  IF kind = "raise" THEN "Exception"
  ELSE IF kind = "cancel" THEN "BaseException"
  ELSE "return"

\* leaving the record_run region around cursor.run
RunExit ==
  /\ pc = "exit"
  /\ \E r \in regions : r.owner = "run"
  /\ FullRecordRunExit(RunRegion, ExitKind(step.kind))
  /\ IF step.kind = "raise"
     THEN pc' = "failed" /\ run_result' = Raised("RuntimeError")
     ELSE IF step.kind = "cancel"
     THEN pc' = "failed" /\ run_result' = Raised("CancelledError")
     ELSE pc' = "route" /\ run_result' = run_result
  /\ UNCHANGED <<deep_copy, codecVars, state, cursor, step, snapshot_id, executed,
                 last_call, reused>>

\* if step is End: snapshot_end and return; elif a node: check it is in the graph
\* and loop; else fail.
RunRoute ==
  /\ pc = "route"
  /\ \/ /\ step.kind = "end"
        /\ Len(snaps) < MaxRunSnaps
        /\ FullSnapshotEnd(state, step.ref)
        /\ pc' = "done"
        /\ run_result' = Returned(nodeHeap[step.ref].data)
        /\ UNCHANGED cursor
     \/ /\ step.kind = "node"
        /\ nodeHeap[step.ref].type \in graph.nodes
        /\ cursor' = step.ref
        /\ pc' = "snapshot"
        /\ UNCHANGED <<stateHeap, nodeHeap, storeVars, run_result>>
     \/ /\ step.kind = "node"
        /\ nodeHeap[step.ref].type \notin graph.nodes
        /\ pc' = "failed"
        /\ run_result' = Raised("GraphRuntimeError: not in the graph")
        /\ UNCHANGED <<stateHeap, nodeHeap, storeVars, cursor>>
     \/ /\ step.kind = "other"
        /\ pc' = "failed"
        /\ run_result' = Raised("GraphRuntimeError: invalid return type")
        /\ UNCHANGED <<stateHeap, nodeHeap, storeVars, cursor>>
  /\ UNCHANGED <<deep_copy, codecVars, state, step, snapshot_id, executed, last_call, reused>>

\* ------------------------------------------------------------ Graph.next
\* One iteration of the loop of Graph.run: snapshot_node, the record_run region
\* around the node's run, then the raw step is handed back to the caller.

\* The nodes a caller passes to Graph.next: one it holds, or the node the
\* previous call returned.
NextArgs ==
  {n \in CallerNodes \cup (IF step.kind = "node" THEN {step.ref} ELSE {}) :
     nodeHeap[n].type \in graph.nodes}

\* graph.next(node, state=state, persistence=full) is called
NextStart(node) ==
  /\ pc \in {"idle", "done", "failed"}
  /\ graph.error = "none"
  /\ cursor' = node
  /\ step' = NoStep
  /\ snapshot_id' = UnknownId
  /\ pc' = "snapshot"
  /\ run_result' = NoResult
  /\ reused' = TRUE
  /\ snapshots_type_adapter' = [snapshots_type_adapter EXCEPT !.sp = TRUE]
  /\ UNCHANGED <<stateHeap, nodeHeap, storeVars, deep_copy, graph, sp2_history,
                 state, executed, last_call>>

\* Graph.next returns the step as the node's run produced it
NextReturn ==
  /\ pc = "route"
  /\ pc' = "done"
  /\ run_result' = Returned(step.ref)
  /\ UNCHANGED <<stateHeap, nodeHeap, storeVars, deep_copy, codecVars, state,
                 cursor, step, snapshot_id, executed, last_call, reused>>

\* ------------------------------------------------------- specifications
InitStore ==
  /\ stateHeap = <<InitialState>>
  /\ nodeHeap = CallerObjects
  /\ snaps = << >>
  /\ captured = << >>
  /\ history = << >>
  /\ last_snapshot = None
  /\ deep_copy \in [full : BOOLEAN, simple : BOOLEAN]
  /\ regions = {}
  /\ snapshot_seq = 0
  /\ now = 0
  /\ state \in {None, 1}
  /\ cursor = None
  /\ step = NoStep
  /\ snapshot_id = UnknownId
  /\ pc = "idle"
  /\ run_result = NoResult
  /\ executed = << >>
  /\ last_call = "none"
  /\ reused = FALSE
  /\ snapshots_type_adapter = [sp |-> FALSE, sp2 |-> FALSE]
  /\ sp2_history = << >>

\* The persistences after construction, and the graph of the tests.
Init ==
  /\ InitStore
  /\ graph = Graph(Declared)

\* The full-history persistences sp and sp2 alone, sp with either deep_copy,
\* and a run state MyState(1, '').
InitJson ==
  /\ Init
  /\ ~deep_copy.simple
  /\ state # None

\* The same, with any of the graphs a caller may try to construct.
InitGraph ==
  /\ InitStore
  /\ graph \in {Graph(nodes) : nodes \in GraphArgs}

\* Both backends as their constructors leave them by default (deep_copy on for
\* the full-history one, off for the latest-only one), with a state object.
InitDefault ==
  /\ Init
  /\ deep_copy = [full |-> TRUE, simple |-> FALSE]
  /\ state # None

ExitKinds == {"return", "Exception", "BaseException"}
StepKinds == {"node", "end", "other", "raise", "cancel"}

NextRun ==
  \/ \E start_node \in CallerNodes : RunStart(start_node)
  \/ \E start_node \in CallerNodes : RunAgain(start_node)
  \/ RunSnapshotNode
  \/ RunEnter
  \/ \E kind \in StepKinds, type \in NodeTypes :
       (kind = "node" \/ type = "Foo") /\ RunNode(kind, IF kind = "end" THEN "End" ELSE type)
  \/ RunExit
  \/ RunRoute

NextGraphNext ==
  \/ \E node \in NextArgs : NextStart(node)
  \/ RunSnapshotNode
  \/ RunEnter
  \/ \E kind \in StepKinds, type \in NodeTypes :
       (kind = "node" \/ type = "Foo") /\ RunNode(kind, IF kind = "end" THEN "End" ELSE type)
  \/ RunExit
  \/ NextReturn

NextJson ==
  \/ \E start_node \in CallerNodes : RunStart(start_node)
  \/ RunSnapshotNode
  \/ RunEnter
  \/ \E kind \in StepKinds, type \in NodeTypes :
       (kind = "node" \/ type = "Foo") /\ RunNode(kind, IF kind = "end" THEN "End" ELSE type)
  \/ RunExit
  \/ RunRoute
  \/ \E p \in {"sp", "sp2"} : CallSetTypes(p)
  \/ CallDumpJson
  \/ \E json_data \in Documents : CallLoadJson(json_data)

NextSnapshot ==
  \/ \E obj \in CallerNodes : CallFullSnapshotNode(obj)
  \/ \E obj \in CallerEnds : CallFullSnapshotEnd(obj)
  \/ \E obj \in CallerNodes : CallSimpleSnapshotNode(obj)
  \/ \E obj \in CallerEnds : CallSimpleSnapshotEnd(obj)

NextMutate ==
  \/ \E obj \in CallerNodes \cup CallerEnds : MutateHeld(obj)
  \/ MutateState

NextCall ==
  \/ NextSnapshot
  \/ \E sid \in PassableIds : CallFullRecordRun(sid)
  \/ \E sid \in PassableIds : CallFullRecordRunFails(sid)
  \/ \E r \in regions, how \in ExitKinds : CallFullRecordRunExit(r, how)
  \/ \E sid \in PassableIds : CallSimpleRecordRun(sid)
  \/ \E sid \in PassableIds : CallSimpleRecordRunFails(sid)
  \/ \E r \in regions, how \in ExitKinds : CallSimpleRecordRunExit(r, how)
  \/ CallFullRestore
  \/ CallSimpleRestore

\* Any sequence of direct calls on the two backends.
Spec == InitDefault /\ [][NextCall]_vars

\* Snapshots taken by direct calls while the caller goes on writing its objects.
SpecCopy == Init /\ [][NextSnapshot \/ NextMutate]_vars

\* Graph.run on a full-history persistence, and again on the same one.
SpecRun == Init /\ [][NextRun]_vars

\* Graph construction, then runs of the graph if there is one.
SpecGraph == InitGraph /\ [][NextRun]_vars

\* Calls of Graph.next, one after the other, on a full-history persistence.
SpecNext == Init /\ [][NextGraphNext]_vars

\* One Graph.run on sp, a full-history persistence, with dump_json on it and
\* load_json on sp2, a second one, at any moment.
SpecJson == InitJson /\ [][NextJson]_vars

\* ================================================================ claims
HistorySnap(i) == snaps[history[i]]
LastSnap == snaps[history[Len(history)]]

\* C1: a successful Graph.run on a fresh full-history persistence leaves a history
\* of one node snapshot per executed step, in execution order (re-entered nodes
\* included), followed by exactly one end snapshot.
C1_HistoryOrder ==
  (pc = "done" /\ ~reused) =>
    /\ Len(history) = Len(executed) + 1
    /\ LastSnap.kind = "end"
    /\ \A i \in 1..Len(executed) :
         /\ HistorySnap(i).kind = "node"
         /\ nodeHeap[HistorySnap(i).node] = executed[i]

\* A finished first run that entered the same node type twice, then ended.
C1_Witness ==
  /\ pc = "done"
  /\ ~reused
  /\ Len(executed) = 2
  /\ executed[1].type = executed[2].type
  /\ Len(history) = 3

\* C2: every exit of a recording region updates the snapshot the region was
\* opened on: duration set, status 'success' on a normal exit and 'error' when
\* something propagates out of the body; no exit leaves it 'running'.
C2_RegionAlwaysUpdates ==
  [][\A r \in regions :
       r \notin regions' =>
         /\ snaps'[r.snap].duration # Absent
         /\ snaps'[r.snap].status = IF last_call' = "none" THEN "success" ELSE "error"]_vars

\* C3: when the task is cancelled while the node runs inside the region, the
\* region exits as on an error: the node's snapshot gets its duration and the
\* status 'error', and the cancellation reaches the caller of run.
C3_CancelIsErrorExit ==
  (pc = "failed" /\ run_result.exc = "CancelledError") =>
    /\ LastSnap.kind = "node"
    /\ LastSnap.status = "error"
    /\ LastSnap.duration # Absent

\* C4: a node snapshot's status never changes once it is 'success' or 'error',
\* whatever persistence operation comes next (a second record_run included).
C4_StatusMonotonic ==
  [][\A i \in 1..Len(snaps) :
       snaps[i].status \in {"success", "error"} => snaps'[i].status = snaps[i].status]_vars

\* C5 as stated: in every reachable state the history holds at most one
\* EndSnapshot and nothing follows it.
EndIndexes == {i \in 1..Len(history) : HistorySnap(i).kind = "end"}

C5_EndOnceAndLast ==
  /\ Cardinality(EndIndexes) <= 1
  /\ \A i \in EndIndexes : i = Len(history)

\* C5 amended: while a fresh full-history persistence has served one Graph.run
\* and nothing else, its history holds at most one EndSnapshot, and it is last.
C5_EndOnceAndLast_FirstRun ==
  ~reused => (Cardinality(EndIndexes) <= 1 /\ \A i \in EndIndexes : i = Len(history))

\* A first run that ended: its end snapshot closes the history.
C5_Witness ==
  /\ ~reused
  /\ pc = "done"
  /\ Len(history) >= 2
  /\ EndIndexes = {Len(history)}

\* The state after the first n executed steps of the run.
RECURSIVE ApplyEffects(_, _)
ApplyEffects(v, nodes) ==
  IF nodes = << >> THEN v
  ELSE ApplyEffects(NodeEffect(Head(nodes).type, v), Tail(nodes))

StateAfterSteps(n) ==
  IF state = None THEN NoState ELSE ApplyEffects(InitialState, SubSeq(executed, 1, n))

SnapshotStatesArePrior ==
  \A k \in 1..Len(history) : StateVal(HistorySnap(k).state) = StateAfterSteps(k - 1)

\* C6 as stated: the state read from the k-th snapshot of a run is the state
\* before the k-th node ran, and the end snapshot's is the state at termination.
C6_SnapshotStateIsPriorState == ~reused => SnapshotStatesArePrior

\* C6 amended: the same, on a full-history persistence with deep_copy on.
C6_SnapshotStateIsPriorState_DeepCopy ==
  (~reused /\ deep_copy.full) => SnapshotStatesArePrior

\* Foo, then Bar, from MyState(1, ''): the snapshots show (1,''), (2,''), (2,'y').
C6_Witness ==
  /\ ~reused
  /\ deep_copy.full
  /\ pc = "done"
  /\ Len(history) = 3
  /\ StateVal(HistorySnap(1).state) = [x |-> 1, y |-> 0]
  /\ StateVal(HistorySnap(2).state) = [x |-> 2, y |-> 0]
  /\ StateVal(HistorySnap(3).state) = [x |-> 2, y |-> 1]

\* The backend that made snapshot object i, and its deep_copy setting.
MadeByFull(i) == \E k \in 1..Len(history) : history[k] = i
DeepCopyOf(i) == IF MadeByFull(i) THEN deep_copy.full ELSE deep_copy.simple

\* C7: with deep_copy on, what a snapshot shows as its state and as its node (or
\* End) stays what it was at capture, whatever the caller writes afterwards.
C7_DeepCopyIsolates ==
  \A i \in 1..Len(snaps) :
    DeepCopyOf(i) =>
      /\ StateVal(snaps[i].state) = captured[i].state
      /\ nodeHeap[snaps[i].node] = captured[i].node

\* A deep-copied snapshot whose live state and live node were both written after
\* the capture.
C7_Witness ==
  \E i \in 1..Len(snaps), obj \in CallerNodes \cup CallerEnds :
    /\ DeepCopyOf(i)
    /\ state # None
    /\ stateHeap[state].x > captured[i].state.x
    /\ nodeHeap[obj].type = captured[i].node.type
    /\ nodeHeap[obj].data # captured[i].node.data

\* C8: when a node's run raises during a first Graph.run, the exception reaches
\* the caller, the history ends with that node's snapshot in status 'error' with
\* a duration, every earlier snapshot is a node snapshot in status 'success', and
\* there is no end snapshot.
C8_NodeErrorHistory ==
  (pc = "failed" /\ run_result.exc = "RuntimeError" /\ ~reused) =>
    /\ run_result.kind = "raised"
    /\ Len(history) = Len(executed)
    /\ LastSnap.kind = "node"
    /\ nodeHeap[LastSnap.node] = executed[Len(executed)]
    /\ LastSnap.status = "error"
    /\ LastSnap.duration # Absent
    /\ \A i \in 1..(Len(history) - 1) :
         HistorySnap(i).kind = "node" /\ HistorySnap(i).status = "success"
    /\ EndIndexes = {}

\* The second node of a first run raised.
C8_Witness ==
  /\ pc = "failed"
  /\ run_result.exc = "RuntimeError"
  /\ ~reused
  /\ Len(history) = 2
  /\ LastSnap.status = "error"

IllegalStepErrors ==
  {"GraphRuntimeError: not in the graph", "GraphRuntimeError: invalid return type"}

\* C9: when a node returns a node that is not in the graph, or something that is
\* neither a node nor End, the first Graph.run fails with a graph runtime error,
\* the returning node's snapshot is 'success', and the history gets neither a
\* snapshot for the returned step nor an end snapshot.
C9_IllegalStepHistory ==
  (pc = "failed" /\ step.kind \in {"node", "other"} /\ ~reused) =>
    /\ run_result.kind = "raised"
    /\ run_result.exc \in IllegalStepErrors
    /\ Len(history) = Len(executed)
    /\ LastSnap.kind = "node"
    /\ nodeHeap[LastSnap.node] = executed[Len(executed)]
    /\ LastSnap.status = "success"
    /\ EndIndexes = {}

\* The second node of a first run returned a node that is not in the graph.
C9_Witness ==
  /\ pc = "failed"
  /\ ~reused
  /\ step.kind = "node"
  /\ nodeHeap[step.ref].type \notin graph.nodes
  /\ run_result.exc = "GraphRuntimeError: not in the graph"
  /\ Len(history) = 2

C11_NextIsOneIteration ==
  /\ EndIndexes = {}
  /\ pc \in {"done", "failed"} =>
       /\ Len(history) = Len(executed)
       /\ \A i \in 1..Len(history) :
            /\ HistorySnap(i).kind = "node"
            /\ nodeHeap[HistorySnap(i).node] = executed[i]
            /\ HistorySnap(i).status \in {"success", "error"}
       /\ pc = "done" => run_result = Returned(step.ref)
\* What each backend holds under an id.
FullHolds(sid) == FullLookup(sid)
SimpleHolds(sid) ==
  IF last_snapshot # None /\ snaps[last_snapshot].id = sid THEN last_snapshot ELSE None

\* C12: on either backend, record_run with an id the backend does not hold
\* raises LookupError before the body is entered and changes no stored snapshot.
C12_UnknownIdLookupError ==
  [][\A sid \in PassableIds :
       (\/ FullHolds(sid) = None /\ (CallFullRecordRun(sid) \/ CallFullRecordRunFails(sid))
        \/ SimpleHolds(sid) = None /\ (CallSimpleRecordRun(sid) \/ CallSimpleRecordRunFails(sid)))
       => (last_call' = "LookupError" /\ snaps' = snaps /\ regions' = regions)]_vars

\* C13: on either backend, record_run with the id of an EndSnapshot raises
\* TypeError before the body is entered, and the EndSnapshot is not changed.
C13_EndSnapshotTypeError ==
  [][\A sid \in PassableIds :
       (\/ /\ FullHolds(sid) # None
            /\ snaps[FullHolds(sid)].kind = "end"
            /\ (CallFullRecordRun(sid) \/ CallFullRecordRunFails(sid))
        \/ /\ SimpleHolds(sid) # None
            /\ snaps[SimpleHolds(sid)].kind = "end"
            /\ (CallSimpleRecordRun(sid) \/ CallSimpleRecordRunFails(sid)))
       => (last_call' = "TypeError" /\ snaps' = snaps /\ regions' = regions)]_vars

\* The snapshot the most recent snapshot_node / snapshot_end call on a backend
\* created, None when there was no such call.
LatestBy(backend) ==
  LET made == {i \in 1..Len(snaps) : captured[i].by = backend}
  IN IF made = {} THEN None ELSE CHOOSE i \in made : \A j \in made : j <= i

\* C14: on both backends restore() returns the snapshot the most recent
\* snapshot_node / snapshot_end call created, and None when nothing was stored;
\* the latest-only backend holds that one snapshot and no other.
C14_RestoreReturnsLatest ==
  /\ FullRestore = LatestBy("full")
  /\ SimpleRestore = LatestBy("simple")
  /\ last_snapshot = LatestBy("simple")

\* Two calls on each kind of backend happened: the second snapshot is the one
\* restore gives.
C14_Witness ==
  \/ Len(history) = 2 /\ FullRestore = 2
  \/ Len(history) = 0 /\ Len(snaps) = 2 /\ SimpleRestore = 2

\* C19: a node snapshot's status goes created -> running -> success | error and
\* nowhere else: it becomes 'running' only when its region is entered, start_ts
\* is written once, together with 'running', and a snapshot whose region has
\* closed is 'success' or 'error'.
C19_StatusSequence ==
  [][/\ \A i \in 1..Len(snaps) :
          /\ snaps'[i].status # snaps[i].status =>
                <<snaps[i].status, snaps'[i].status>> \in
                  {<<"created", "running">>, <<"running", "success">>, <<"running", "error">>}
          /\ snaps'[i].start_ts # snaps[i].start_ts =>
                (snaps[i].start_ts = Absent /\ snaps'[i].status = "running")
          /\ (snaps[i].status # "running" /\ snaps'[i].status = "running") =>
                \E r \in regions' \ regions : r.snap = i
     /\ \A r \in regions \ regions' : snaps'[r.snap].status \in {"success", "error"}]_vars

\* C20: on the full-history backend, entering and leaving a record_run region
\* leaves the history as it is and changes no snapshot but the one located at
\* entry, of which only status, start_ts and duration change; this also when
\* snapshot_node / snapshot_end appended further snapshots while the region was
\* open.
C20_RecordRunFrame ==
  [][\A r \in (regions \cup regions') \ (regions \cap regions') :
       r.backend = "full" =>
         /\ history' = history
         /\ Len(snaps') = Len(snaps)
         /\ \A i \in 1..Len(snaps) : i # r.snap => snaps'[i] = snaps[i]
         /\ snaps'[r.snap] = [snaps[r.snap] EXCEPT !.status = snaps'[r.snap].status,
                                                   !.start_ts = snaps'[r.snap].start_ts,
                                                   !.duration = snaps'[r.snap].duration]
         /\ (r \in regions /\ last_call' \in {"none", "Exception"}) =>
              /\ snaps'[r.snap].duration # Absent
              /\ snaps'[r.snap].status \in {"success", "error"}]_vars

\* A region is open on the first snapshot of a history of two.
C20_Witness ==
  \E r \in regions :
    /\ r.backend = "full"
    /\ Len(history) = 2
    /\ r.snap = history[1]
    /\ snaps[history[2]].status = "created"
    /\ snaps[r.snap].status = "running"

\* C17: a graph whose construction succeeded never fails a run with 'Node ...
\* is not in the graph' for a step whose type is in the declared return of the
\* node that returned it; and constructing a graph from a node set with a
\* declared return outside the set raises the setup error, after which there is
\* no graph to run.
C17_ValidatorCompleteness ==
  /\ run_result.exc = "GraphRuntimeError: not in the graph" =>
       nodeHeap[step.ref].type \notin DeclaredReturn(nodeHeap[cursor].type)
  /\ (\E n \in graph.requested : ~(DeclaredReturn(n) \subseteq graph.requested \cup {"End"})) =>
       /\ graph.error = "GraphSetupError"
       /\ pc = "idle"
       /\ history = << >>

\* Foo returned a Bar, which its run declares, and the run went on with it.
C17_Witness ==
  /\ graph.error = "none"
  /\ pc = "snapshot"
  /\ step.kind = "node"
  /\ Len(executed) = 1
  /\ nodeHeap[step.ref].type \in DeclaredReturn(executed[1].type)
  /\ cursor = step.ref

\* A snapshot and a history by value, as == compares them.
SnapshotValue(a) ==
  [snaps[a] EXCEPT !.state = StateVal(snaps[a].state), !.node = nodeHeap[snaps[a].node]]
HistoryValue(h) == [i \in 1..Len(h) |-> SnapshotValue(h[i])]

IdLess(doc, i) == {j \in 1..i : doc[j].id = Absent}

C18_NoAdapterFails ==
  [][/\ (~snapshots_type_adapter.sp /\ CallDumpJson) =>
          (last_call' = NoAdapter /\ history' = history /\ snaps' = snaps)
     /\ \A doc \in Documents :
          (~snapshots_type_adapter.sp2 /\ CallLoadJson(doc)) =>
            (last_call' = NoAdapter /\ sp2_history' = sp2_history /\ snaps' = snaps)]_vars

\* load_json or dump_json has just failed on the missing type adapter, next to
\* a history that holds a snapshot.
C18_Witness ==
  /\ last_call = NoAdapter
  /\ ~snapshots_type_adapter.sp2
  /\ Len(history) > 0

\* C21: the latest-only backend accepts record_run(id) only when it has a
\* current snapshot, that is a node snapshot, and its id is id; when the region
\* is left by return or by an Exception, duration and final status go to the
\* snapshot that is current at that moment and to no other, so a snapshot that
\* was overwritten while its region was open stays as it was, 'running'.
C21_SimpleExitWritesCurrent ==
  [][/\ \A r \in regions' \ regions :
          r.backend = "simple" =>
            /\ last_snapshot # None
            /\ snaps[last_snapshot].kind = "node"
            /\ snaps[last_snapshot].id = r.sid
     /\ \A r \in regions \ regions' :
          r.backend = "simple" =>
            /\ last_call' \in {"none", "Exception"} =>
                 /\ snaps'[last_snapshot].duration # Absent
                 /\ snaps'[last_snapshot].status =
                      IF last_call' = "none" THEN "success" ELSE "error"
            /\ \A i \in 1..Len(snaps) : i # last_snapshot => snaps'[i] = snaps[i]
     /\ \A i \in 1..Len(snaps) :
          (captured[i].by = "simple" /\ i # last_snapshot) => snaps'[i] = snaps[i]]_vars

\* The snapshot a region was opened on was overwritten while the region was
\* open: it is still 'running' after the exit, and the newer snapshot has the
\* duration and the final status.
C21_Witness ==
  /\ regions = {}
  /\ Len(snaps) = 2
  /\ last_snapshot = 2
  /\ captured[1].by = "simple"
  /\ snaps[1].status = "running"
  /\ snaps[1].duration = Absent
  /\ snaps[2].start_ts = Absent
  /\ snaps[2].duration # Absent
  /\ snaps[2].status \in {"success", "error"}

\* The node snapshots of the history that are 'created' or 'running'.
Unfinished ==
  {i \in 1..Len(history) :
     HistorySnap(i).kind = "node" /\ HistorySnap(i).status \in {"created", "running"}}

\* C22: during one run on a fresh full-history persistence, at most one node
\* snapshot is 'created' or 'running', it is the last entry of the history, and
\* every node snapshot before it is 'success'.
C22_OneUnfinishedLast ==
  ~reused =>
    /\ Cardinality(Unfinished) <= 1
    /\ \A i \in Unfinished :
         /\ i = Len(history)
         /\ \A j \in 1..(i - 1) :
              HistorySnap(j).kind = "node" => HistorySnap(j).status = "success"

\* The second node of a first run is running, the first has succeeded.
C22_Witness ==
  /\ ~reused
  /\ pc = "exit"
  /\ Len(history) = 2
  /\ HistorySnap(1).status = "success"
  /\ HistorySnap(2).status = "running"

\* C23: load_json replaces the history by the decoded document: the history
\* then holds one new snapshot per object of the document, in order, and none
\* of the snapshots held before; when decoding fails, the history and its
\* snapshots are as before the call.
C23_LoadReplacesHistory ==
  [][\A doc \in Documents :
       (snapshots_type_adapter.sp2 /\ CallLoadJson(doc)) =>
         IF \A i \in 1..Len(doc) : doc[i].kind = "end" \/ doc[i].node[1].node_id \in graph.nodes
         THEN /\ last_call' = "none"
              /\ Len(sp2_history') = Len(doc)
              /\ \A i \in 1..Len(doc) :
                   /\ sp2_history'[i] = Len(snaps) + i
                   /\ snaps'[sp2_history'[i]].kind = doc[i].kind
                   /\ nodeHeap'[snaps'[sp2_history'[i]].node].data =
                        (IF doc[i].kind = "node" THEN doc[i].node[1].data
                         ELSE doc[i].result[1].data)
              /\ \A i \in 1..Len(snaps) : snaps'[i] = snaps[i]
         ELSE /\ last_call' = "ValidationError"
              /\ sp2_history' = sp2_history
              /\ snaps' = snaps
              /\ stateHeap' = stateHeap
              /\ nodeHeap' = nodeHeap]_vars

\* sp2 was loaded while it held a snapshot: it holds the new one alone.
C23_Witness ==
  \E i, j \in 1..Len(snaps) :
    /\ i < j
    /\ captured[i].by \in {"load, id assigned", "load, id kept"}
    /\ sp2_history = <<j>>

====
